---------------------------- MODULE Spec2Model ----------------------------
(***************************************************************************)
(* Gesture-controlled "Angry Balls" (src/main.py): the game state machine  *)
(* (SimpleBird, SimpleTarget, SimpleGame), the two gesture stabilizers and *)
(* the per-frame orchestration of video_frame_callback.                    *)
(*                                                                         *)
(* Numbers.  The program computes positions and velocities in Python       *)
(* floats.  The model keeps them as integers in units of 1/Scale pixel     *)
(* (fixed point); products that are not exact in that unit (the drag       *)
(* factor 0.995, the clamped pull direction) are rounded to the nearest    *)
(* unit.  Pointer and pinch positions of the input alphabets are whole     *)
(* pixels, so 0.15 * (start - position) and the gravity step 0.3 are exact.*)
(*                                                                         *)
(* Inputs.  The landmark provider and the four detect_* classifiers are    *)
(* outside the model: one detected hand is the record of what the          *)
(* classifiers return for it (Hand below), plus whether it carries the 21  *)
(* landmarks the classifiers index.                                        *)
(*                                                                         *)
(* Left out: drawing (cv2 calls, SimpleGame.draw), which reads the state   *)
(* and writes only the image; the write-only fields pull_x, pull_y,        *)
(* transition_direction ('left' throughout) and old_game_surface; the      *)
(* button's geometry and unused keys ('clicked', 'fallback_activated',     *)
(* 'trigger_cooldown'), which never change.                                *)
(***************************************************************************)
EXTENDS Integers, Sequences, FiniteSets, TLC

VARIABLES
    bird,                 \* SimpleGame.bird : SimpleBird
    targets,              \* SimpleGame.targets : list of SimpleTarget
    pulling,              \* SimpleGame.pulling
    score,                \* SimpleGame.score
    game_won,             \* SimpleGame.game_won
    is_paused,            \* SimpleGame.is_paused
    fist_detected,        \* SimpleGame.fist_detected
    last_fist_state,      \* SimpleGame.last_fist_state
    pause_message_timer,  \* SimpleGame.pause_message_timer
    current_level,        \* SimpleGame.current_level
    is_transitioning,     \* SimpleGame.is_transitioning
    transition_progress,  \* SimpleGame.transition_progress
    reset_button,         \* SimpleGame.reset_button (the fields that change)
    fist_history,         \* module global fist_history
    swipe_history,        \* module global swipe_history
    last                  \* observations, not program state.  Of the last step:
                          \* fired (calls of reset_game by the button), raised
                          \* (the tick ended in the except clause), resolved (it
                          \* completed a level transition), refired (the button
                          \* fired while not armed), bounced (the bounds check
                          \* reset the bird).  Running: armed (no firing
                          \* since the last evaluation outside the expanded
                          \* rectangle), held (consecutive unpaused ticks with
                          \* one hand pointing into the button, counted from a
                          \* fresh button), tticks (updates of the transition
                          \* in progress), calm (consecutive completed ticks
                          \* whose frame showed no fist)

vars == <<bird, targets, pulling, score, game_won, is_paused, fist_detected,
          last_fist_state, pause_message_timer, current_level, is_transitioning,
          transition_progress, reset_button, fist_history, swipe_history, last>>

---------------------------------------------------------------------------
(* Fixed-point arithmetic standing for Python floats *)

Scale == 10000

Px(n) == n * Scale

Abs(n) == IF n < 0 THEN -n ELSE n

Min(a, b) == IF a <= b THEN a ELSE b

Max(a, b) == IF a >= b THEN a ELSE b

\* a * num / den, rounded to the nearest unit (half away from zero)
MulDiv(a, num, den) ==
    IF a >= 0 THEN (2 * a * num + den) \div (2 * den)
              ELSE -((2 * (-a) * num + den) \div (2 * den))

\* int(x) of a float x: truncation toward zero, in whole pixels
IntPx(x) == IF x >= 0 THEN x \div Scale ELSE -((-x) \div Scale)

\* floor(a / b) * 1.0 for floats holding whole pixels: Python's // on floats
FloorDivPx(a, b) == (a \div (b * Scale)) * Scale

RECURSIVE SqrtIter(_, _, _)
SqrtIter(n, lo, hi) ==
    IF lo >= hi THEN lo
    ELSE LET mid == (lo + hi + 1) \div 2
         IN  IF mid * mid <= n THEN SqrtIter(n, mid, hi)
                               ELSE SqrtIter(n, lo, mid - 1)

\* floor(sqrt(n)) for 0 <= n < 2^31
ISqrt(n) == SqrtIter(n, 0, 46340)

\* Squares of model units do not fit TLC's integers, so distances are taken
\* on coordinates rounded to 1/100 pixel
Centi == Scale \div 100

Coarse(v) == MulDiv(v, 1, Centi)

\* math.sqrt(dx**2 + dy**2) in 1/100 pixel, for dx, dy in 1/100 pixel; the
\* second branch keeps the squares inside TLC's integers for points far apart
Hypot(dx, dy) ==
    IF Abs(dx) <= 32000 /\ Abs(dy) <= 32000
    THEN ISqrt(dx * dx + dy * dy)
    ELSE 10 * ISqrt((dx \div 10) * (dx \div 10) + (dy \div 10) * (dy \div 10))

\* math.sqrt(dx**2 + dy**2) < r, decided on the squares (r at most 100 px)
DistLess(dx, dy, r) ==
    LET cx == Coarse(dx)
        cy == Coarse(dy)
        cr == Coarse(r)
    IN  /\ Abs(cx) < cr
        /\ Abs(cy) < cr
        /\ cx * cx + cy * cy < cr * cr

\* math.sqrt(dx**2 + dy**2) > r
DistGreater(dx, dy, r) ==
    LET cx == Coarse(dx)
        cy == Coarse(dy)
        cr == Coarse(r)
    IN  \/ Abs(cx) > cr
        \/ Abs(cy) > cr
        \/ cx * cx + cy * cy > cr * cr

---------------------------------------------------------------------------
(* Frame size and SimpleGame.__init__ geometry *)

FrameWidth == 640

FrameHeight == 480

game_area_width == Min(MulDiv(Px(FrameWidth), 8, 10), Px(800))

game_area_height == Min(MulDiv(Px(FrameHeight), 8, 10), Px(600))

game_offset_x == FloorDivPx(Px(FrameWidth) - game_area_width, 2)

game_offset_y == FloorDivPx(Px(FrameHeight) - game_area_height, 2)

max_level == 5

\* reset_button geometry
button_x == Px(10)

button_y == Px((FrameHeight \div 2) + 130)

button_width == Px(110)

button_height == Px(40)

detection_padding == Px(20)

max_progress == 60

---------------------------------------------------------------------------
(* SimpleBird *)

bird_radius == Px(15)

\* SimpleBird.__init__
NewBird(x, y) ==
    [x |-> x, y |-> y, start_x |-> x, start_y |-> y,
     vel_x |-> 0, vel_y |-> 0, is_flying |-> FALSE, trail |-> <<>>]

\* SimpleBird.reset leaving the velocity as it finds it
BirdResetKeepsVelocity(b) ==
    [b EXCEPT !.x = b.start_x, !.y = b.start_y,
              !.is_flying = FALSE, !.trail = <<>>]

\* SimpleBird.reset
BirdReset(b) ==
    [b EXCEPT !.x = b.start_x, !.y = b.start_y, !.vel_x = 0, !.vel_y = 0,
              !.is_flying = FALSE, !.trail = <<>>]

\* SimpleBird.update recording every point, whatever the trail's length
BirdUpdateUncapped(b) ==
    IF b.is_flying
    THEN LET vy == b.vel_y + MulDiv(Scale, 3, 10)
             vx == MulDiv(b.vel_x, 995, 1000)
             nx == b.x + vx
             ny == b.y + vy
         IN  [b EXCEPT !.vel_x = vx, !.vel_y = vy, !.x = nx, !.y = ny,
                       !.trail = Append(b.trail, <<IntPx(nx), IntPx(ny)>>)]
    ELSE b

\* SimpleBird.update integrating with the velocity of before the step
BirdUpdateOldVelocity(b) ==
    IF b.is_flying
    THEN LET vy == b.vel_y + MulDiv(Scale, 3, 10)
             vx == MulDiv(b.vel_x, 995, 1000)
             nx == b.x + b.vel_x
             ny == b.y + b.vel_y
         IN  [b EXCEPT !.vel_x = vx, !.vel_y = vy, !.x = nx, !.y = ny,
                       !.trail = IF Len(b.trail) < 20
                                 THEN Append(b.trail, <<IntPx(nx), IntPx(ny)>>)
                                 ELSE b.trail]
    ELSE b

\* SimpleBird.update
BirdUpdate(b) ==
    IF b.is_flying
    THEN LET vy == b.vel_y + MulDiv(Scale, 3, 10)   \* vel_y += 0.3
             vx == MulDiv(b.vel_x, 995, 1000)       \* vel_x *= 0.995
             nx == b.x + vx
             ny == b.y + vy
         IN  [b EXCEPT !.vel_x = vx, !.vel_y = vy, !.x = nx, !.y = ny,
                       !.trail = IF Len(b.trail) < 20
                                 THEN Append(b.trail, <<IntPx(nx), IntPx(ny)>>)
                                 ELSE b.trail]
    ELSE b

\* SimpleBird.launch
BirdLaunch(b, vx, vy) ==
    [b EXCEPT !.vel_x = vx, !.vel_y = vy, !.is_flying = TRUE,
              !.trail = <<<<IntPx(b.x), IntPx(b.y)>>>>]

---------------------------------------------------------------------------
(* SimpleTarget *)

target_radius == Px(20)

\* SimpleTarget.__init__ at an offset from the playfield's bottom-right corner
NewTarget(ox, oy) ==
    [x |-> game_offset_x + game_area_width - Px(ox),
     y |-> game_offset_y + game_area_height - Px(oy),
     is_destroyed |-> FALSE]

\* check_collision that stands a destroyed target up again once the bird is
\* out of reach
check_collision_restoring(t, b) ==
    IF t.is_destroyed
    THEN [target |-> [t EXCEPT !.is_destroyed =
                         DistLess(t.x - b.x, t.y - b.y, target_radius + bird_radius)],
          hit |-> FALSE]
    ELSE IF DistLess(t.x - b.x, t.y - b.y, target_radius + bird_radius)
    THEN [target |-> [t EXCEPT !.is_destroyed = TRUE], hit |-> TRUE]
    ELSE [target |-> t, hit |-> FALSE]

\* check_collision without its is_destroyed guard
check_collision_unguarded(t, b) ==
    IF DistLess(t.x - b.x, t.y - b.y, target_radius + bird_radius)
    THEN [target |-> [t EXCEPT !.is_destroyed = TRUE], hit |-> TRUE]
    ELSE [target |-> t, hit |-> FALSE]

\* SimpleTarget.check_collision: the target after the call and the value returned
check_collision(t, b) ==
    IF t.is_destroyed
    THEN [target |-> t, hit |-> FALSE]
    ELSE IF DistLess(t.x - b.x, t.y - b.y, target_radius + bird_radius)
         THEN [target |-> [t EXCEPT !.is_destroyed = TRUE], hit |-> TRUE]
         ELSE [target |-> t, hit |-> FALSE]

---------------------------------------------------------------------------
(* SimpleGame.  Its methods are operators on the record g of the game's    *)
(* fields (the variables of the module, see State); each returns the       *)
(* record after the call.                                                  *)

\* The target offsets of init_level, level by level
LevelOffsets(level) ==
    CASE level = 1 -> << <<100, 100>>, <<150, 150>>, <<200, 100>> >>
      [] level = 2 -> << <<80, 80>>, <<120, 120>>, <<160, 160>>, <<200, 80>> >>
      [] level = 3 -> << <<70, 70>>, <<110, 110>>, <<150, 150>>, <<190, 110>>,
                         <<230, 70>> >>
      [] level = 4 -> << <<100, 60>>, <<140, 60>>, <<180, 60>>, <<120, 100>>,
                         <<160, 100>>, <<140, 140>> >>
      [] OTHER     -> << <<80, 60>>, <<120, 100>>, <<160, 140>>, <<200, 100>>,
                         <<240, 60>>, <<130, 180>>, <<170, 180>> >>

LevelTargets(level) ==
    [i \in 1..Len(LevelOffsets(level)) |->
        NewTarget(LevelOffsets(level)[i][1], LevelOffsets(level)[i][2])]

\* The bird init_level places
StartBird ==
    NewBird(game_offset_x + Px(100), game_offset_y + game_area_height - Px(150))

\* init_level that starts the level with a score of 0
init_level_clears_score(g) ==
    [g EXCEPT !.bird = StartBird,
              !.targets = LevelTargets(g.current_level),
              !.pulling = FALSE,
              !.score = 0]

\* init_level that keeps the bird it finds
init_level_keeps_bird(g) ==
    [g EXCEPT !.targets = LevelTargets(g.current_level),
              !.pulling = FALSE]

\* SimpleGame.init_level
init_level(g) ==
    [g EXCEPT !.bird = StartBird,
              !.targets = LevelTargets(g.current_level),
              !.pulling = FALSE]

\* reset_game that also goes back to the first level
reset_game_first_level(g) ==
    [g EXCEPT !.bird = BirdReset(g.bird),
              !.targets = [i \in 1..Len(g.targets) |->
                              [g.targets[i] EXCEPT !.is_destroyed = FALSE]],
              !.score = 0,
              !.game_won = FALSE,
              !.pulling = FALSE,
              !.current_level = 1]

\* SimpleGame.reset_game
reset_game(g) ==
    [g EXCEPT !.bird = BirdReset(g.bird),
              !.targets = [i \in 1..Len(g.targets) |->
                              [g.targets[i] EXCEPT !.is_destroyed = FALSE]],
              !.score = 0,
              !.game_won = FALSE,
              !.pulling = FALSE]

\* SimpleGame.start_transition
start_transition(g) ==
    [g EXCEPT !.is_transitioning = TRUE, !.transition_progress = 0,
              !.last.tticks = 0]

\* next_level instantiating the new level's layout at once
next_level_eager(g) ==
    IF ~g.is_transitioning /\ g.current_level < max_level
    THEN init_level([start_transition(g) EXCEPT
                        !.current_level = g.current_level + 1])
    ELSE g

\* next_level without the test against max_level
next_level_unbounded(g) ==
    IF ~g.is_transitioning
    THEN [start_transition(g) EXCEPT !.current_level = g.current_level + 1]
    ELSE g

\* SimpleGame.next_level
next_level(g) ==
    IF ~g.is_transitioning /\ g.current_level < max_level
    THEN [start_transition(g) EXCEPT !.current_level = g.current_level + 1]
    ELSE g

\* update_transition completing the animation only above 102
update_transition_overshoots(g) ==
    IF g.is_transitioning
    THEN LET p == g.transition_progress + 3
         IN  IF p > 102
             THEN [init_level(g) EXCEPT !.is_transitioning = FALSE,
                                        !.transition_progress = 0,
                                        !.last.resolved = TRUE,
                                        !.last.tticks = g.last.tticks + 1]
             ELSE [g EXCEPT !.transition_progress = p,
                            !.last.tticks = g.last.tticks + 1]
    ELSE g

\* update_transition completing the animation without init_level
update_transition_keeps_layout(g) ==
    IF g.is_transitioning
    THEN LET p == g.transition_progress + 3
         IN  IF p >= 100
             THEN [g EXCEPT !.is_transitioning = FALSE,
                            !.transition_progress = 0,
                            !.last.resolved = TRUE,
                            !.last.tticks = g.last.tticks + 1]
             ELSE [g EXCEPT !.transition_progress = p,
                            !.last.tticks = g.last.tticks + 1]
    ELSE g

\* SimpleGame.update_transition
update_transition(g) ==
    IF g.is_transitioning
    THEN LET p == g.transition_progress + 3
         IN  IF p >= 100
             THEN init_level([g EXCEPT !.is_transitioning = FALSE,
                                       !.transition_progress = 0,
                                       !.last.resolved = TRUE,
                                       !.last.tticks = g.last.tticks + 1])
             ELSE [g EXCEPT !.transition_progress = p,
                            !.last.tticks = g.last.tticks + 1]
    ELSE g

\* The boundary test with the top edge added
OutOfBoundsWithTop(b) ==
    \/ b.x > game_offset_x + game_area_width
    \/ b.y > game_offset_y + game_area_height
    \/ b.x < game_offset_x
    \/ b.y < game_offset_y

\* The boundary test of SimpleGame.update
OutOfBounds(b) ==
    \/ b.x > game_offset_x + game_area_width
    \/ b.y > game_offset_y + game_area_height
    \/ b.x < game_offset_x

\* The collision loop of SimpleGame.update: every target checked against the
\* bird, 100 points for each check that returns True
Collide(g) ==
    LET res == [i \in 1..Len(g.targets) |-> check_collision(g.targets[i], g.bird)]
        hits == Cardinality({i \in 1..Len(g.targets) : res[i].hit})
    IN  [g EXCEPT !.targets = [i \in 1..Len(g.targets) |-> res[i].target],
                  !.score = g.score + 100 * hits]

\* SimpleGame.update
update(g) ==
    IF g.is_transitioning
    THEN update_transition(g)
    ELSE LET g1 == Collide([g EXCEPT !.bird = BirdUpdate(g.bird)])
             g2 == IF OutOfBounds(g1.bird) /\ g1.bird.is_flying
                   THEN [g1 EXCEPT !.bird = BirdReset(g1.bird),
                                   !.last.bounced = TRUE]
                   ELSE g1
         IN  [g2 EXCEPT !.game_won =
                  \A i \in 1..Len(g2.targets) : g2.targets[i].is_destroyed]

\* start_pull without the test of is_flying
start_pull_midflight(g, x, y) ==
    IF ~g.game_won /\ DistLess(x - g.bird.x, y - g.bird.y, Px(40))
    THEN [g EXCEPT !.pulling = TRUE]
    ELSE g

\* start_pull accepting a point at exactly 40 px
start_pull_inclusive(g, x, y) ==
    IF ~g.bird.is_flying /\ ~g.game_won
       /\ ~DistGreater(x - g.bird.x, y - g.bird.y, Px(40))
    THEN [g EXCEPT !.pulling = TRUE]
    ELSE g

\* SimpleGame.start_pull
start_pull(g, x, y) ==
    IF ~g.bird.is_flying /\ ~g.game_won /\ DistLess(x - g.bird.x, y - g.bird.y, Px(40))
    THEN [g EXCEPT !.pulling = TRUE]
    ELSE g

\* update_pull without the 100 px limit
update_pull_unclamped(g, x, y) ==
    IF g.pulling
    THEN [g EXCEPT !.bird.x = x, !.bird.y = y]
    ELSE g

\* SimpleGame.update_pull
update_pull(g, x, y) ==
    IF g.pulling
    THEN LET dx == x - g.bird.start_x
             dy == y - g.bird.start_y
             far == DistGreater(dx, dy, Px(100))
             d  == Hypot(Coarse(dx), Coarse(dy))
             \* start + (dx / distance) * max_distance, to 1/100 pixel
             nx == IF far
                   THEN g.bird.start_x + Centi * MulDiv(Coarse(dx), Coarse(Px(100)), d)
                   ELSE x
             ny == IF far
                   THEN g.bird.start_y + Centi * MulDiv(Coarse(dy), Coarse(Px(100)), d)
                   ELSE y
         IN  [g EXCEPT !.bird.x = nx, !.bird.y = ny]
    ELSE g

\* release without its pulling guard
release_unguarded(g) ==
    [g EXCEPT !.bird = BirdLaunch(g.bird,
                           MulDiv(g.bird.start_x - g.bird.x, 15, 100),
                           MulDiv(g.bird.start_y - g.bird.y, 15, 100)),
              !.pulling = FALSE]

\* SimpleGame.release
release(g) ==
    IF g.pulling
    THEN [g EXCEPT !.bird = BirdLaunch(g.bird,
                                MulDiv(g.bird.start_x - g.bird.x, 15, 100),
                                MulDiv(g.bird.start_y - g.bird.y, 15, 100)),
                   !.pulling = FALSE]
    ELSE g

\* in_expanded_area of check_button_hover
InExpandedArea(x, y) ==
    /\ button_x - detection_padding <= x
    /\ x <= button_x + button_width + detection_padding
    /\ button_y - detection_padding <= y
    /\ y <= button_y + button_height + detection_padding

\* in_button_area of check_button_hover
InButtonArea(x, y) ==
    /\ button_x <= x /\ x <= button_x + button_width
    /\ button_y <= y /\ y <= button_y + button_height

\* The trigger without setting progress to max_progress
ButtonTriggeredNoPin(b) ==
    [b EXCEPT !.hover = TRUE, !.has_triggered = TRUE,
              !.active = FALSE, !.was_in_area = TRUE]

\* The trigger without setting has_triggered
ButtonTriggeredNoLatch(b) ==
    [b EXCEPT !.hover = TRUE, !.progress = max_progress,
              !.active = FALSE, !.was_in_area = TRUE]

\* The button once the trigger condition is reached
ButtonTriggered(b) ==
    [b EXCEPT !.hover = TRUE, !.has_triggered = TRUE, !.progress = max_progress,
              !.active = FALSE, !.was_in_area = TRUE]

\* check_button_hover whose leave event keeps the progress, left to decay
check_button_hover_decaying(g, x, y) ==
    LET button == g.reset_button
        in_expanded_area == InExpandedArea(x, y)
        in_button_area == InButtonArea(x, y)
        just_left == ~in_expanded_area /\ button.was_in_area
        b1 == IF just_left
              THEN [button EXCEPT !.has_triggered = FALSE,
                                  !.active = FALSE, !.hover = FALSE]
              ELSE button
    IN  IF in_expanded_area /\ ~b1.has_triggered
        THEN LET p == b1.progress + (IF in_button_area THEN 2 ELSE 1)
             IN  IF p >= max_progress
                 THEN [reset_game(g) EXCEPT
                          !.reset_button = ButtonTriggered(b1),
                          !.last.fired = g.last.fired + 1,
                          !.last.refired = g.last.refired \/ ~g.last.armed,
                          !.last.armed = FALSE]
                 ELSE [g EXCEPT !.reset_button =
                          [b1 EXCEPT !.hover = TRUE, !.active = TRUE,
                                     !.progress = p, !.was_in_area = TRUE]]
        ELSE IF in_expanded_area /\ b1.has_triggered
        THEN [g EXCEPT !.reset_button =
                 [b1 EXCEPT !.hover = TRUE, !.active = FALSE, !.was_in_area = TRUE]]
        ELSE [g EXCEPT !.reset_button =
                 [b1 EXCEPT !.hover = FALSE, !.active = FALSE,
                            !.progress = IF b1.has_triggered THEN b1.progress
                                         ELSE Max(0, b1.progress - 3),
                            !.was_in_area = FALSE],
                       !.last.armed = TRUE]

\* SimpleGame.check_button_hover; the value it returns (True when it called
\* reset_game) is counted in last.fired
check_button_hover(g, x, y) ==
    LET button == g.reset_button
        in_expanded_area == InExpandedArea(x, y)
        in_button_area == InButtonArea(x, y)
        just_left == ~in_expanded_area /\ button.was_in_area
        b1 == IF just_left
              THEN [button EXCEPT !.has_triggered = FALSE, !.progress = 0,
                                  !.active = FALSE, !.hover = FALSE]
              ELSE button
    IN  IF in_expanded_area /\ ~b1.has_triggered
        THEN LET p == b1.progress + (IF in_button_area THEN 2 ELSE 1)
             IN  IF p >= max_progress
                 THEN [reset_game(g) EXCEPT
                          !.reset_button = ButtonTriggered(b1),
                          !.last.fired = g.last.fired + 1,
                          !.last.refired = g.last.refired \/ ~g.last.armed,
                          !.last.armed = FALSE]
                 ELSE [g EXCEPT !.reset_button =
                          [b1 EXCEPT !.hover = TRUE, !.active = TRUE,
                                     !.progress = p, !.was_in_area = TRUE]]
        ELSE IF in_expanded_area /\ b1.has_triggered
        THEN [g EXCEPT !.reset_button =
                 [b1 EXCEPT !.hover = TRUE, !.active = FALSE, !.was_in_area = TRUE]]
        ELSE [g EXCEPT !.reset_button =
                 [b1 EXCEPT !.hover = FALSE, !.active = FALSE,
                            !.progress = IF b1.has_triggered THEN b1.progress
                                         ELSE Max(0, b1.progress - 3),
                            !.was_in_area = FALSE],
                       !.last.armed = TRUE]

\* SimpleGame.update_pause_state
update_pause_state(g) ==
    LET g1 == IF g.fist_detected /\ ~g.last_fist_state
              THEN [g EXCEPT !.is_paused = TRUE, !.pause_message_timer = 120]
              ELSE IF ~g.fist_detected /\ g.last_fist_state
              THEN [g EXCEPT !.is_paused = FALSE, !.pause_message_timer = 60]
              ELSE g
    IN  [g1 EXCEPT !.last_fist_state = g.fist_detected,
                   !.pause_message_timer =
                       IF g1.pause_message_timer > 0
                       THEN g1.pause_message_timer - 1
                       ELSE g1.pause_message_timer]

---------------------------------------------------------------------------
(* The gesture stabilizers (module globals fist_history, swipe_history) *)

\* update_fist_detection asking for a fist in both of the last 2 samples
update_fist_detection_both(hist, is_fist_detected) ==
    LET h1 == Append(hist, is_fist_detected)
        h2 == IF Len(h1) > 3 THEN Tail(h1) ELSE h1
        n  == Len(h2)
    IN  [history |-> h2,
         stable  |-> IF n >= 2
                     THEN Cardinality({i \in (n - 1)..n : h2[i]}) >= 2
                     ELSE is_fist_detected]

\* update_fist_detection: the history after the call and the value returned
update_fist_detection(hist, is_fist_detected) ==
    LET h1 == Append(hist, is_fist_detected)
        h2 == IF Len(h1) > 3 THEN Tail(h1) ELSE h1
        n  == Len(h2)
    IN  [history |-> h2,
         stable  |-> IF n >= 2
                     THEN Cardinality({i \in (n - 1)..n : h2[i]}) >= 1
                     ELSE is_fist_detected]

\* update_swipe_detection returning true only on the sample that makes the
\* window qualify
update_swipe_detection_once(hist, is_swiping, position) ==
    LET h1 == Append(hist, <<is_swiping, position>>)
        h2 == IF Len(h1) > 10 THEN Tail(h1) ELSE h1
        n  == Len(h2)
        m  == Len(hist)
    IN  [history |-> h2,
         trigger |-> /\ n >= 5
                     /\ Cardinality({i \in (n - 4)..n : h2[i][1]}) >= 3
                     /\ ~(/\ m >= 5
                          /\ Cardinality({i \in (m - 4)..m : hist[i][1]}) >= 3)]

\* update_swipe_detection: the history after the call and the value returned
update_swipe_detection(hist, is_swiping, position) ==
    LET h1 == Append(hist, <<is_swiping, position>>)
        h2 == IF Len(h1) > 10 THEN Tail(h1) ELSE h1
        n  == Len(h2)
    IN  [history |-> h2,
         trigger |-> IF n >= 5
                     THEN Cardinality({i \in (n - 4)..n : h2[i][1]}) >= 3
                     ELSE FALSE]

---------------------------------------------------------------------------
(* video_frame_callback.  A frame is the sequence of detected hands        *)
(* (results.multi_hand_landmarks, at most max_num_hands = 2 of them).  A   *)
(* hand is what the classifiers return for it: detect_pinch (pinching,     *)
(* center), detect_pointing (pointing, point_pos), detect_left_swipe       *)
(* (swiping, swipe_pos), detect_fist (fist); ok is FALSE for a hand with   *)
(* fewer than 21 landmarks, on which draw_landmarks and the classifiers'   *)
(* landmark[i] raise before anything is done with the hand.                *)

Hand(ok, pinching, center, pointing, point_pos, swiping, swipe_pos, fist) ==
    [ok |-> ok, pinching |-> pinching, center |-> center,
     pointing |-> pointing, point_pos |-> point_pos,
     swiping |-> swiping, swipe_pos |-> swipe_pos, fist |-> fist]

\* The locals of video_frame_callback before the loop over the hands
NoGesture ==
    [is_pinching |-> FALSE, pinch_center |-> <<0, 0>>,
     is_pointing |-> FALSE, point_position |-> <<0, 0>>,
     is_swiping |-> FALSE, swipe_position |-> <<0, 0>>]

\* One iteration of the loop over results.multi_hand_landmarks, on the pair
\* c = [g: the game and the histories, loc: the locals]
ProcessHand(c, h) ==
    IF c.g.last.raised
    THEN c
    ELSE IF ~h.ok
    THEN [c EXCEPT !.g.last.raised = TRUE]
    ELSE LET l1 == IF h.pinching
                   THEN [c.loc EXCEPT !.is_pinching = TRUE,
                                      !.pinch_center = h.center]
                   ELSE c.loc
             l2 == IF h.pointing
                   THEN [l1 EXCEPT !.is_pointing = TRUE,
                                   !.point_position = h.point_pos]
                   ELSE l1
             g2 == IF h.pointing
                   THEN check_button_hover(c.g, h.point_pos[1], h.point_pos[2])
                   ELSE c.g
             l3 == IF h.swiping
                   THEN [l2 EXCEPT !.is_swiping = TRUE,
                                   !.swipe_position = h.swipe_pos]
                   ELSE l2
             f  == update_fist_detection(g2.fist_history, h.fist)
         IN  [g   |-> [g2 EXCEPT !.fist_history = f.history,
                                 !.fist_detected = f.stable],
              loc |-> l3]

RECURSIVE ProcessHands(_, _)
ProcessHands(c, hands) ==
    IF hands = <<>> THEN c
    ELSE ProcessHands(ProcessHand(c, Head(hands)), Tail(hands))

\* The slingshot dispatch, run when the game is not paused
Slingshot(g, loc) ==
    IF loc.is_pinching /\ ~g.pulling
    THEN start_pull(g, loc.pinch_center[1], loc.pinch_center[2])
    ELSE IF loc.is_pinching /\ g.pulling
    THEN update_pull(g, loc.pinch_center[1], loc.pinch_center[2])
    ELSE IF ~loc.is_pinching /\ g.pulling
    THEN release(g)
    ELSE g

\* The button progress detection, run when the game is not paused
ButtonProgress(g, loc) ==
    IF loc.is_pointing
    THEN check_button_hover(g, loc.point_position[1], loc.point_position[2])
    ELSE check_button_hover(g, Px(-1), Px(-1))

\* The swipe detection and level switch, run paused or not
SwipeSwitch(g, loc) ==
    LET sw == update_swipe_detection(g.swipe_history, loc.is_swiping,
                                     loc.swipe_position)
        g1 == [g EXCEPT !.swipe_history = sw.history]
    IN  IF sw.trigger /\ g1.game_won /\ ~g1.is_transitioning
        THEN IF g1.current_level < max_level THEN next_level(g1) ELSE g1
        ELSE g1

\* The body of the try block after the loop over the hands
AfterHands(g, loc) ==
    LET g1 == update_pause_state(g)
        g2 == IF ~g1.is_paused THEN ButtonProgress(Slingshot(g1, loc), loc) ELSE g1
        g3 == SwipeSwitch(g2, loc)
    IN  IF ~g3.is_paused THEN update(g3) ELSE g3

\* The restart button as SimpleGame.__init__ leaves it
FreshButton ==
    [hover |-> FALSE, progress |-> 0, active |-> FALSE,
     has_triggered |-> FALSE, was_in_area |-> FALSE]

\* The count last.held after a tick from g to n on the frame hands: the
\* ticks so far, in a row and starting at a fresh button, that ended unpaused
\* with exactly one hand, pointing into the literal button rectangle
HeldCap == 31

Held(g, hands, n) ==
    IF /\ Len(hands) = 1
       /\ hands[1].ok
       /\ hands[1].pointing
       /\ InButtonArea(hands[1].point_pos[1], hands[1].point_pos[2])
       /\ ~n.is_paused
    THEN IF g.last.held > 0 THEN Min(g.last.held + 1, HeldCap)
         ELSE IF g.reset_button = FreshButton THEN 1 ELSE 0
    ELSE 0

\* The count last.calm after a tick from g to n on the frame hands: the
\* ticks so far, in a row, that completed with no fist in the frame (hands
\* without a fist, or no hand at all)
CalmCap == 2

Calm(g, hands, n) ==
    IF (\A i \in 1..Len(hands) : hands[i].ok /\ ~hands[i].fist) /\ ~n.last.raised
    THEN Min(g.last.calm + 1, CalmCap)
    ELSE 0

\* video_frame_callback on the record g and one frame; a tick that raises
\* leaves through the except clause with what it had done so far
Frame(g, hands) ==
    LET g0 == [g EXCEPT !.last.fired = 0, !.last.raised = FALSE,
                        !.last.resolved = FALSE, !.last.refired = FALSE,
                        !.last.bounced = FALSE]
        c  == ProcessHands([g |-> g0, loc |-> NoGesture], hands)
        n  == IF c.g.last.raised THEN c.g ELSE AfterHands(c.g, c.loc)
    IN  [n EXCEPT !.last.held = Held(g, hands, n),
                  !.last.calm = Calm(g, hands, n)]

---------------------------------------------------------------------------
(* State, initial state, actions *)

State ==
    [bird |-> bird, targets |-> targets, pulling |-> pulling, score |-> score,
     game_won |-> game_won, is_paused |-> is_paused,
     fist_detected |-> fist_detected, last_fist_state |-> last_fist_state,
     pause_message_timer |-> pause_message_timer,
     current_level |-> current_level, is_transitioning |-> is_transitioning,
     transition_progress |-> transition_progress,
     reset_button |-> reset_button, fist_history |-> fist_history,
     swipe_history |-> swipe_history, last |-> last]

\* The variables take the fields of the record n
Becomes(n) ==
    /\ bird' = n.bird
    /\ targets' = n.targets
    /\ pulling' = n.pulling
    /\ score' = n.score
    /\ game_won' = n.game_won
    /\ is_paused' = n.is_paused
    /\ fist_detected' = n.fist_detected
    /\ last_fist_state' = n.last_fist_state
    /\ pause_message_timer' = n.pause_message_timer
    /\ current_level' = n.current_level
    /\ is_transitioning' = n.is_transitioning
    /\ transition_progress' = n.transition_progress
    /\ reset_button' = n.reset_button
    /\ fist_history' = n.fist_history
    /\ swipe_history' = n.swipe_history
    /\ last' = n.last

\* SimpleGame.__init__ (on the first frame) and the empty module globals
NewGame ==
    init_level(
        [bird |-> NewBird(0, 0), targets |-> <<>>, pulling |-> FALSE, score |-> 0,
         game_won |-> FALSE, is_paused |-> FALSE, fist_detected |-> FALSE,
         last_fist_state |-> FALSE, pause_message_timer |-> 0,
         current_level |-> 1, is_transitioning |-> FALSE,
         transition_progress |-> 0,
         reset_button |-> FreshButton,
         fist_history |-> <<>>, swipe_history |-> <<>>,
         last |-> [fired |-> 0, raised |-> FALSE, resolved |-> FALSE,
                   refired |-> FALSE, armed |-> TRUE, held |-> 0, tticks |-> 0,
                   calm |-> 0, bounced |-> FALSE]])

Init ==
    /\ bird = NewGame.bird
    /\ targets = NewGame.targets
    /\ pulling = NewGame.pulling
    /\ score = NewGame.score
    /\ game_won = NewGame.game_won
    /\ is_paused = NewGame.is_paused
    /\ fist_detected = NewGame.fist_detected
    /\ last_fist_state = NewGame.last_fist_state
    /\ pause_message_timer = NewGame.pause_message_timer
    /\ current_level = NewGame.current_level
    /\ is_transitioning = NewGame.is_transitioning
    /\ transition_progress = NewGame.transition_progress
    /\ reset_button = NewGame.reset_button
    /\ fist_history = NewGame.fist_history
    /\ swipe_history = NewGame.swipe_history
    /\ last = NewGame.last

\* One tick: video_frame_callback on a frame with the given hands
Tick(hands) == Becomes(Frame(State, hands))

\* The sidebar's "Reset Game" button of main(): game.reset_game()
SidebarReset ==
    Becomes([reset_game(State) EXCEPT
                !.last.fired = 0, !.last.raised = FALSE,
                !.last.resolved = FALSE, !.last.refired = FALSE,
                !.last.bounced = FALSE])

---------------------------------------------------------------------------
(* Input alphabets: the frames the provider may deliver.  Positions are in *)
(* whole pixels of the 640 x 480 frame.                                    *)

Pt(x, y) == <<Px(x), Px(y)>>

Origin == <<0, 0>>

PinchHand(p) == Hand(TRUE, TRUE, p, FALSE, Origin, FALSE, Origin, FALSE)

PointHand(p) == Hand(TRUE, FALSE, Origin, TRUE, p, FALSE, Origin, FALSE)

SwipeHand(p) == Hand(TRUE, FALSE, Origin, FALSE, Origin, TRUE, p, FALSE)

FistHand == Hand(TRUE, FALSE, Origin, FALSE, Origin, FALSE, Origin, TRUE)

\* A hand with fewer than 21 landmarks
BadHand == Hand(FALSE, FALSE, Origin, FALSE, Origin, FALSE, Origin, FALSE)

AtBird == Pt(164, 282)      \* the bird's start position

PulledBack == Pt(104, 322)  \* 60 px left of and 40 px below the start

PulledDown == Pt(164, 400)  \* 118 px below the start: beyond the 100 px limit

PulledRight == Pt(244, 282) \* 80 px right of the start

PulledFar == Pt(84, 342)    \* 80 px left of and 60 px below the start

InButton == Pt(60, 390)     \* inside the literal button rectangle

InMargin == Pt(130, 390)    \* inside the expanded rectangle only

OffButton == Pt(300, 200)   \* outside the expanded rectangle

NoHands == <<>>

\* One hand playing the slingshot
FramesPlay == {NoHands, <<PinchHand(AtBird)>>, <<PinchHand(PulledBack)>>,
               <<PinchHand(PulledDown)>>, <<PinchHand(PulledRight)>>,
               <<PinchHand(PulledFar)>>}

\* One hand pointing
FramesPoint == {<<PointHand(InButton)>>, <<PointHand(InMargin)>>,
                <<PointHand(OffButton)>>}

FramesFist == {<<FistHand>>}

\* A malformed hand, alone or after a well-formed pointing hand
FramesBad == {<<BadHand>>, <<PointHand(InButton), BadHand>>}

\* Two hands: one points at the button while the other pinches or makes a fist
FramesTwoHands == {<<PinchHand(AtBird), PointHand(InButton)>>,
                   <<FistHand, PointHand(InButton)>>}

\* Slingshot in one hand while the other hand holds the swipe pose, or a fist
\* in its place
SwipeWith(h) == <<h, SwipeHand(OffButton)>>

FramesLevels == {<<SwipeHand(OffButton)>>, SwipeWith(PinchHand(AtBird)),
                 SwipeWith(PinchHand(PulledBack)), SwipeWith(FistHand)}

\* Restart button, pause and malformed hands
FramesButton == {NoHands} \cup FramesPoint \cup FramesFist \cup FramesBad

\* Slingshot in one hand, button in the other, pause
FramesHands == {NoHands} \cup FramesTwoHands

AllFrames == FramesPlay \cup FramesLevels \cup FramesButton \cup FramesHands

\* A step is a tick
IsTick == \E hands \in AllFrames : Tick(hands)

\* The places in a tick at which the sidebar's reset_game, running on the
\* script thread without any lock, is modelled as cutting in: after the loop
\* over the hands, and in the collision loop of update between a
\* check_collision that returned True and the score += 100 that follows it
RacePoints == {"hands", "score"}

\* Some check of the collision loop returns True in update on g
HitsIn(g) ==
    \E i \in 1..Len(g.targets) :
        check_collision(g.targets[i], BirdUpdate(g.bird)).hit

\* The collision loop with reset_game cutting in right after the first check
\* that returned True: that target has been marked, then everything is
\* reset, then the pending score += 100 runs and the loop goes on
CollideRacing(g) ==
    LET first == CHOOSE i \in 1..Len(g.targets) :
                    /\ check_collision(g.targets[i], g.bird).hit
                    /\ \A j \in 1..(i - 1) : ~check_collision(g.targets[j], g.bird).hit
        r    == reset_game(g)
        res  == [i \in 1..Len(r.targets) |->
                    IF i > first THEN check_collision(r.targets[i], r.bird)
                    ELSE [target |-> r.targets[i], hit |-> FALSE]]
        hits == Cardinality({i \in 1..Len(r.targets) : res[i].hit})
    IN  [r EXCEPT !.targets = [i \in 1..Len(r.targets) |-> res[i].target],
                  !.score = r.score + 100 + 100 * hits]

\* SimpleGame.update with reset_game cutting in at the score
updateRacing(g) ==
    LET g1 == CollideRacing([g EXCEPT !.bird = BirdUpdate(g.bird)])
        g2 == IF OutOfBounds(g1.bird) /\ g1.bird.is_flying
              THEN [g1 EXCEPT !.bird = BirdReset(g1.bird),
                              !.last.bounced = TRUE]
              ELSE g1
    IN  [g2 EXCEPT !.game_won =
             \A i \in 1..Len(g2.targets) : g2.targets[i].is_destroyed]

\* The game as update() finds it in a tick on g and the frame hands
BeforeUpdate(g, loc) ==
    LET g1 == update_pause_state(g)
        g2 == IF ~g1.is_paused THEN ButtonProgress(Slingshot(g1, loc), loc) ELSE g1
    IN  SwipeSwitch(g2, loc)

\* The race point is reached in a tick on g and the frame hands
Reaches(g, hands, point) ==
    LET g0 == [g EXCEPT !.last.fired = 0, !.last.raised = FALSE,
                        !.last.resolved = FALSE, !.last.refired = FALSE,
                        !.last.bounced = FALSE]
        c  == ProcessHands([g |-> g0, loc |-> NoGesture], hands)
        b  == BeforeUpdate(c.g, c.loc)
    IN  /\ ~c.g.last.raised
        /\ point = "score" =>
               ~b.is_paused /\ ~b.is_transitioning /\ HitsIn(b)

\* video_frame_callback with reset_game cutting in at the race point
FrameRacing(g, hands, point) ==
    LET g0 == [g EXCEPT !.last.fired = 0, !.last.raised = FALSE,
                        !.last.resolved = FALSE, !.last.refired = FALSE,
                        !.last.bounced = FALSE]
        c  == ProcessHands([g |-> g0, loc |-> NoGesture], hands)
        n  == IF point = "hands"
              THEN AfterHands(reset_game(c.g), c.loc)
              ELSE updateRacing(BeforeUpdate(c.g, c.loc))
    IN  [n EXCEPT !.last.held = Held(g, hands, n),
                  !.last.calm = Calm(g, hands, n)]

\* A tick during which the sidebar's "Reset Game" runs on the other thread
Race(hands, point) ==
    /\ Reaches(State, hands, point)
    /\ Becomes(FrameRacing(State, hands, point))

\* Slingshot play with the sidebar reset on its own thread
NextRace ==
    \/ \E hands \in FramesPlay : Tick(hands)
    \/ SidebarReset
    \/ \E hands \in FramesPlay, point \in RacePoints : Race(hands, point)

SpecRace == Init /\ [][NextRace]_vars

\* Slingshot play
Next == (\E hands \in FramesPlay : Tick(hands)) \/ SidebarReset

Spec == Init /\ [][Next]_vars

\* Slingshot play, level switching and pause
NextLevels == (\E hands \in FramesLevels : Tick(hands)) \/ SidebarReset

SpecLevels == Init /\ [][NextLevels]_vars

NextButton == (\E hands \in FramesButton : Tick(hands)) \/ SidebarReset

SpecButton == Init /\ [][NextButton]_vars

NextHands == (\E hands \in FramesHands : Tick(hands)) \/ SidebarReset

SpecHands == Init /\ [][NextHands]_vars

---------------------------------------------------------------------------
(* Claims *)

TickPlay == \E hands \in FramesPlay : Tick(hands)

TickLevels == \E hands \in FramesLevels : Tick(hands)

TickButton == \E hands \in FramesButton : Tick(hands)

TickHands == \E hands \in FramesHands : Tick(hands)

AllDestroyed == \A i \in 1..Len(targets) : targets[i].is_destroyed

DestroyedCount == Cardinality({i \in 1..Len(targets) : targets[i].is_destroyed})

\* C1: from a fresh restart button, a single hand pointing into the literal
\* button rectangle on 30 consecutive unpaused ticks fires the restart on the
\* 30th tick, with progress 60, and on no earlier tick.
C1_FiresOnTick30 ==
    /\ last.held \in 1..29 => last.fired = 0
    /\ last.held = 30 => last.fired = 1 /\ reset_button.progress = max_progress

\* C2: the restart button fires at most once per hover episode: a firing
\* happens only if, since the firing before it, check_button_hover was
\* evaluated with the pointer outside the expanded rectangle.
C2_OncePerEpisode == ~last.refired

\* C2 witness: the button fired and the pointer then stayed inside for five
\* more ticks without another firing.
C2_Witness ==
    /\ last.held >= 20
    /\ ~last.armed
    /\ last.fired = 0
    /\ reset_button.has_triggered

\* C3: a tick on which the game is paused (after the pause edge detector
\* ran) leaves the projectile, every target's destroyed flag, the score,
\* game_won and the pulling flag unchanged, whatever the gestures.
C3_PausedTickFreezesGame ==
    [][(is_paused' /\ TickHands) =>
          UNCHANGED <<bird, targets, score, game_won, pulling>>]_vars

\* C4: a tick on which the game is paused leaves the restart button's
\* progress, has_triggered and active unchanged and fires no restart.
C4_PausedTickFreezesButton ==
    [][(is_paused' /\ TickButton) =>
          /\ reset_button'.progress = reset_button.progress
          /\ reset_button'.has_triggered = reset_button.has_triggered
          /\ reset_button'.active = reset_button.active
          /\ last'.fired = 0]_vars

\* C5: at the end of every tick and after every reset, game_won is true if
\* and only if every target of the current targets list is destroyed.
C5_WonIffAllDestroyed == game_won <=> AllDestroyed

\* C6: a tick increments current_level only when every target of the
\* currently instantiated targets list is destroyed.
C6_AdvanceOnlyWhenWon ==
    [][current_level' > current_level => AllDestroyed]_vars

\* C7: a tick during which an exception is raised leaves the game state as
\* it was before the tick.
C7_FailedTickRollsBack ==
    [][(last'.raised /\ TickButton) =>
          UNCHANGED <<bird, targets, pulling, score, game_won, is_paused,
                      fist_detected, last_fist_state, pause_message_timer,
                      current_level, is_transitioning, transition_progress,
                      reset_button>>]_vars

\* The bird's centre is strictly closer to target t than the two radii
Overlaps(t, bx, by) == DistLess(t.x - bx, t.y - by, Px(20) + Px(15))

\* C8, the check itself on the bird where it is: a destroyed target returns
\* False unchanged whatever the distance; a standing target is destroyed
\* and returns True exactly when the bird is strictly closer than the radii,
\* and a second check after that returns False.
C8_CheckOnce ==
    \A i \in 1..Len(targets) :
        LET t == targets[i]
            r == check_collision(t, bird)
            again == check_collision(r.target, bird)
        IN  /\ t.is_destroyed => ~r.hit /\ r.target = t
            /\ ~t.is_destroyed =>
                  /\ r.hit <=> Overlaps(t, bird.x, bird.y)
                  /\ r.target = [t EXCEPT !.is_destroyed = r.hit]
            /\ r.hit => ~again.hit /\ again.target = r.target

\* C8, the score: in a tick without reset or level initialisation a
\* destroyed target stays as it is, and the score grows by 100 for each
\* target the tick destroys and by nothing else.
C8_ScoreStep ==
    (last'.fired = 0 /\ ~last'.resolved /\ TickPlay) =>
        /\ Len(targets') = Len(targets)
        /\ \A i \in 1..Len(targets) :
              targets[i].is_destroyed => targets'[i] = targets[i]
        /\ score' = score + 100 * Cardinality({i \in 1..Len(targets) :
                        ~targets[i].is_destroyed /\ targets'[i].is_destroyed})

\* C8: collision scoring is one-shot per target.
C8_OneShotScoring == []C8_CheckOnce /\ [][C8_ScoreStep]_vars

\* C8 witness: the flying bird overlaps a destroyed target now and did so
\* at the end of the tick before, and every destroyed target counted once.
C8_Witness ==
    /\ bird.is_flying
    /\ score = 100 * DestroyedCount
    /\ \E i \in 1..Len(targets) :
          /\ targets[i].is_destroyed
          /\ Overlaps(targets[i], bird.x, bird.y)
          /\ Overlaps(targets[i], bird.x - bird.vel_x, bird.y - bird.vel_y)

\* C9, the count: a transition in progress has advanced 3 per update and
\* has had at most 33 of them.
C9_Count ==
    is_transitioning =>
        /\ transition_progress = 3 * last.tticks
        /\ last.tticks \in 0..33

\* C9, the step: an unpaused tick that starts in a transition adds 3 to the
\* progress, and the one that reaches 100 (the 34th) ends the transition
\* with progress 0 and the layout of the level number already incremented.
C9_TransitionStep ==
    (is_transitioning /\ ~is_paused' /\ TickLevels) =>
        IF transition_progress + 3 >= 100
        THEN /\ ~is_transitioning'
             /\ transition_progress' = 0
             /\ last'.tticks = 34
             /\ current_level' = current_level
             /\ targets' = LevelTargets(current_level)
             /\ bird' = StartBird
             /\ pulling' = FALSE
        ELSE /\ is_transitioning'
             /\ transition_progress' = transition_progress + 3
             /\ current_level' = current_level

C10_TransitionTickFreezesGame ==
    [][(is_transitioning /\ ~last'.resolved /\ TickLevels) =>
          UNCHANGED <<bird, targets, score, game_won, pulling, reset_button>>]_vars

\* What the restart command makes of the state s: the record r
ResetOutcome(s, r) ==
    /\ r.bird.x = s.bird.start_x
    /\ r.bird.y = s.bird.start_y
    /\ r.bird.start_x = s.bird.start_x
    /\ r.bird.start_y = s.bird.start_y
    /\ r.bird.vel_x = 0
    /\ r.bird.vel_y = 0
    /\ ~r.bird.is_flying
    /\ r.bird.trail = <<>>
    /\ Len(r.targets) = Len(s.targets)
    /\ \A i \in 1..Len(s.targets) :
          /\ ~r.targets[i].is_destroyed
          /\ r.targets[i].x = s.targets[i].x
          /\ r.targets[i].y = s.targets[i].y
    /\ r.score = 0
    /\ ~r.game_won
    /\ ~r.pulling
    /\ r.current_level = s.current_level
    /\ r.is_transitioning = s.is_transitioning
    /\ r.transition_progress = s.transition_progress
    /\ r.is_paused = s.is_paused
    /\ r.fist_detected = s.fist_detected
    /\ r.last_fist_state = s.last_fist_state
    /\ r.pause_message_timer = s.pause_message_timer

\* C11: reset_game() puts the projectile at its start with zero velocity,
\* not flying, trail empty, clears every destroyed flag, zeroes the score,
\* clears game_won and pulling, and leaves the level, the transition, the
\* pause state and the targets' positions as they were; checked on the
\* command applied to every reachable state and on every sidebar reset step.
C11_ResetEffect ==
    /\ [](ResetOutcome(State, reset_game(State)))
    /\ [][SidebarReset => ResetOutcome(State, State')]_vars

\* C11 witness: a restart during the transition to level 2, which only a
\* reset can produce (the transition starts with game_won true, score 300).
C11_Witness ==
    /\ is_transitioning
    /\ transition_progress > 0
    /\ current_level = 2
    /\ score = 0
    /\ ~game_won
    /\ \A i \in 1..Len(targets) : ~targets[i].is_destroyed

\* C12: is_paused changes in a step only when the stabilized fist signal
\* (fist_detected) after the step differs from the one after the previous
\* tick, and then takes the new signal's value: false to true pauses, true
\* to false unpauses; a steady signal and a reset leave is_paused unchanged.
C12_PauseEdgeTriggered ==
    [][is_paused' # is_paused =>
          /\ fist_detected' # fist_detected
          /\ is_paused' = fist_detected']_vars

\* C13: releasing the fist is always observed: once two ticks in a row have
\* completed with no fist in the frame (a hand without a fist, or no hand at
\* all), the game is not paused.
C13_ReleaseObserved == last.calm >= 2 => ~is_paused

\* The values update_fist_detection returns for the raw samples raw, fed in
\* order starting from the history hist
RECURSIVE StabilizedFrom(_, _)
StabilizedFrom(hist, raw) ==
    IF raw = <<>> THEN <<>>
    ELSE LET u == update_fist_detection(hist, Head(raw))
         IN  <<u.stable>> \o StabilizedFrom(u.history, Tail(raw))

\* C14, one call on the history as it is, for either raw sample: the history
\* keeps the 3 most recent samples, and the value returned is the raw sample
\* on the first sample and otherwise whether one of the 2 most recent is true.
C14_Call ==
    \A raw \in BOOLEAN :
        LET n == Len(fist_history)
            u == update_fist_detection(fist_history, raw)
        IN  /\ u.history = IF n < 3 THEN Append(fist_history, raw)
                           ELSE <<fist_history[2], fist_history[3], raw>>
            /\ Len(u.history) <= 3
            /\ u.stable = IF n = 0 THEN raw ELSE (fist_history[n] \/ raw)

IsFifteenHundredths(v, d) == Abs(100 * v - 15 * d) <= 50

\* C15, the call on the state as it is: while pulling, release() sets the
\* velocity to 0.15 * (start - pulled position), is_flying true, pulling
\* false and the trail to the launch point alone, and changes nothing else;
\* while not pulling it changes nothing; a second release() changes nothing.
C15_Call ==
    LET r == release(State)
    IN  /\ pulling =>
              /\ IsFifteenHundredths(r.bird.vel_x, bird.start_x - bird.x)
              /\ IsFifteenHundredths(r.bird.vel_y, bird.start_y - bird.y)
              /\ r.bird.is_flying
              /\ ~r.pulling
              /\ r.bird.trail = << <<IntPx(bird.x), IntPx(bird.y)>> >>
              /\ [r EXCEPT !.bird.vel_x = bird.vel_x, !.bird.vel_y = bird.vel_y,
                           !.bird.is_flying = bird.is_flying,
                           !.bird.trail = bird.trail, !.pulling = TRUE] = State
        /\ ~pulling => r = State
        /\ release(r) = r

\* C15, the tick that releases: pulling ends with the bird in flight, one
\* physics step after a launch at 0.15 * (start - pulled position), its
\* trail the launch point and the point after that step.
C15_ReleaseStep ==
    (pulling /\ ~pulling' /\ TickPlay) =>
        /\ bird'.is_flying
        /\ IsFifteenHundredths(bird'.vel_y - MulDiv(Scale, 3, 10),
                               bird.start_y - bird.y)
        /\ bird'.x = bird.x + bird'.vel_x
        /\ bird'.y = bird.y + bird'.vel_y
        /\ bird'.trail = << <<IntPx(bird.x), IntPx(bird.y)>>,
                            <<IntPx(bird'.x), IntPx(bird'.y)>> >>

\* C15: release() launches at exactly 0.15 * (start - pulled position) and
\* is a no-op when not pulling.
C15_Release == []C15_Call /\ [][C15_ReleaseStep]_vars

\* C15 witness: the state one tick after releasing the pull of 60 px left
\* and 40 px down: launched at (9, -6) px per tick, then one physics step.
C15_Witness ==
    /\ bird.is_flying
    /\ ~pulling
    /\ Len(bird.trail) = 2
    /\ bird.trail[1] = <<104, 322>>
    /\ bird.vel_x = MulDiv(Px(9), 995, 1000)
    /\ bird.vel_y = Px(-6) + MulDiv(Scale, 3, 10)

\* Where one physics step takes the flying bird
AfterStepX == bird.x + MulDiv(bird.vel_x, 995, 1000)

AfterStepY == bird.y + bird.vel_y + MulDiv(Scale, 3, 10)

\* That position is right of, below or left of the playfield
Exits ==
    \/ AfterStepX > game_offset_x + game_area_width
    \/ AfterStepY > game_offset_y + game_area_height
    \/ AfterStepX < game_offset_x

\* Points just outside the playfield to the right, below and to the left
OutsidePoints ==
    {<<game_offset_x + game_area_width + Px(1), game_offset_y + Px(10)>>,
     <<game_offset_x + Px(10), game_offset_y + game_area_height + Px(1)>>,
     <<game_offset_x - Px(1), game_offset_y + Px(10)>>}

\* C16, a tick that starts with the bird in flight: if the position after
\* the physics step is right of, below or left of the playfield the bird is
\* back at its start, velocity zero, not flying, trail empty; otherwise (also
\* when it is above the top edge) it flies on from that position.
C16_FlyingStep ==
    (bird.is_flying /\ TickPlay) =>
        IF Exits
        THEN /\ last'.bounced
             /\ bird' = [x |-> bird.start_x, y |-> bird.start_y,
                         start_x |-> bird.start_x, start_y |-> bird.start_y,
                         vel_x |-> 0, vel_y |-> 0, is_flying |-> FALSE,
                         trail |-> <<>>]
        ELSE /\ ~last'.bounced
             /\ bird'.is_flying
             /\ bird'.x = AfterStepX
             /\ bird'.y = AfterStepY

\* C16, a tick that starts with the bird at rest and not pulled: the bounds
\* check resets nothing.
C16_IdleStep ==
    (~bird.is_flying /\ ~pulling /\ TickPlay) => ~last'.bounced

\* C16, update() on a bird at rest placed outside the playfield: unchanged.
C16_IdleOutside ==
    \A p \in OutsidePoints :
        LET g == [State EXCEPT !.bird = NewBird(p[1], p[2]),
                               !.is_transitioning = FALSE]
        IN  /\ update(g).bird = g.bird
            /\ update(g).last.bounced = g.last.bounced

\* C16: a flying projectile that leaves the playfield to the right, the
\* bottom or the left is reset; one above the top edge is not; a projectile
\* that is not flying is never reset by the bounds check.
C16_OutOfBoundsReset ==
    /\ []C16_IdleOutside
    /\ [][C16_FlyingStep]_vars
    /\ [][C16_IdleStep]_vars

\* C16 witness: the tick on which the bounds check reset the bird.
C16_Witness ==
    /\ last.bounced
    /\ ~bird.is_flying
    /\ bird = StartBird

\* v is 0.995 * w to the resolution of the model (half a unit of 1/Scale px)
IsDragged(v, w) == Abs(1000 * v - 995 * w) <= 500

\* C17, the physics step on the bird as it is: in flight, vy grows by 0.3,
\* vx becomes 0.995 vx, the position moves by the updated velocity, and the
\* trail takes the new point while it has fewer than 20; at rest, nothing
\* changes.
C17_Call ==
    LET u == BirdUpdate(bird)
    IN  /\ bird.is_flying =>
              /\ 10 * (u.vel_y - bird.vel_y) = 3 * Scale
              /\ IsDragged(u.vel_x, bird.vel_x)
              /\ u.x = bird.x + u.vel_x
              /\ u.y = bird.y + u.vel_y
              /\ u.is_flying
              /\ u.start_x = bird.start_x /\ u.start_y = bird.start_y
              /\ u.trail = IF Len(bird.trail) < 20
                           THEN Append(bird.trail, <<IntPx(u.x), IntPx(u.y)>>)
                           ELSE bird.trail
        /\ ~bird.is_flying => u = bird

\* C17, the tick: a bird in flight before and after the tick has taken
\* exactly that step; a bird at rest and not pulled before and after the
\* tick is unchanged.
C17_PhysicsStep ==
    /\ (bird.is_flying /\ bird'.is_flying /\ TickPlay) =>
          /\ 10 * (bird'.vel_y - bird.vel_y) = 3 * Scale
          /\ IsDragged(bird'.vel_x, bird.vel_x)
          /\ bird'.x = bird.x + bird'.vel_x
          /\ bird'.y = bird.y + bird'.vel_y
    /\ (~bird.is_flying /\ ~pulling /\ ~pulling' /\ TickPlay) => bird' = bird

\* C17: gravity, then drag, then integration with the updated velocity; a
\* projectile that is not flying is left unchanged by the physics step.
C17_Physics == []C17_Call /\ [][C17_PhysicsStep]_vars

\* C17 witness: a bird that has flown at least 20 steps and is falling.
C17_Witness ==
    /\ bird.is_flying
    /\ Len(bird.trail) = 20
    /\ bird.vel_y > 0
    /\ bird.vel_x > 0

\* C18, the call on the state as it is: next_level() changes nothing when a
\* transition is in progress or the level is max_level; otherwise it starts
\* a transition at progress 0, adds exactly 1 to current_level and changes
\* nothing else.
C18_Call ==
    LET r == next_level(State)
    IN  IF is_transitioning \/ current_level = max_level
        THEN r = State
        ELSE /\ r.is_transitioning
             /\ r.transition_progress = 0
             /\ r.current_level = current_level + 1
             /\ [r EXCEPT !.is_transitioning = FALSE,
                          !.transition_progress = transition_progress,
                          !.current_level = current_level,
                          !.last = last] = State

\* C18, the range: the level is between 1 and max_level (5).
C18_Range == current_level \in 1..5 /\ max_level = 5

\* C18, the step: the level never decreases, grows by at most 1, and grows
\* only out of a state that is not in a transition, into one that is.
C18_Step ==
    /\ current_level' >= current_level
    /\ current_level' <= current_level + 1
    /\ current_level' > current_level => ~is_transitioning /\ is_transitioning'

\* C18: next_level() is a no-op during a transition and at the last level,
\* otherwise starts a transition and increments the level by 1; the level
\* stays within 1..5 and never decreases.
C18_NextLevel == [](C18_Call /\ C18_Range) /\ [][C18_Step]_vars

\* C18 witness: the last level reached and its transition completed, with a
\* stabilized swipe and game_won still asking for the next level.
C18_Witness ==
    /\ current_level = max_level
    /\ ~is_transitioning
    /\ game_won
    /\ Len(swipe_history) = 10
    /\ \A i \in 6..10 : swipe_history[i][1]

\* The playfield's bottom-right corner
CornerX == game_offset_x + game_area_width

CornerY == game_offset_y + game_area_height

\* An undestroyed target dx, dy pixels left of and above that corner
StandingAt(dx, dy) ==
    [x |-> CornerX - Px(dx), y |-> CornerY - Px(dy), is_destroyed |-> FALSE]

\* The x, y positions of a list of targets
Positions(ts) == [i \in 1..Len(ts) |-> <<ts[i].x, ts[i].y>>]

\* The layout init_level makes of a new game set to the given level
FreshLayout(level) == init_level([NewGame EXCEPT !.current_level = level]).targets

\* C19, the layouts: level + 2 undestroyed targets (3, 4, 5, 6, 7) for levels
\* 1 to 5, for level 1 at offsets (100,100), (150,150), (200,100) from the
\* bottom-right corner.
C19_Layouts ==
    /\ \A level \in 1..5 :
          /\ Len(FreshLayout(level)) = level + 2
          /\ \A i \in 1..(level + 2) : ~FreshLayout(level)[i].is_destroyed
    /\ FreshLayout(1) = <<StandingAt(100, 100), StandingAt(150, 150),
                          StandingAt(200, 100)>>

\* C19, init_level on the state as it is: the layout of its level number,
\* the same whatever else the state holds; a fresh bird at rest 100 px right
\* of the left edge and 150 px above the bottom edge; pulling false; nothing
\* else changed; a second initialisation changes nothing.
C19_Call ==
    LET r == init_level(State)
    IN  /\ r.targets = FreshLayout(current_level)
        /\ r.bird = [x |-> game_offset_x + Px(100), y |-> CornerY - Px(150),
                     start_x |-> game_offset_x + Px(100),
                     start_y |-> CornerY - Px(150),
                     vel_x |-> 0, vel_y |-> 0, is_flying |-> FALSE,
                     trail |-> <<>>]
        /\ ~r.pulling
        /\ [r EXCEPT !.bird = bird, !.targets = targets,
                     !.pulling = pulling] = State
        /\ init_level(r) = r

\* C19, the game: outside a transition the targets stand where init_level
\* puts them for the current level.
C19_Layout ==
    ~is_transitioning =>
        Positions(targets) = Positions(LevelTargets(current_level))

\* C19: level generation is a pure function of the level number and the
\* playfield geometry.
C19_InitLevel == C19_Layouts /\ C19_Call /\ C19_Layout

\* C19 witness: the tick that initialised level 3.
C19_Witness ==
    /\ last.resolved
    /\ current_level = 3
    /\ Len(targets) = 5
    /\ \A i \in 1..5 : ~targets[i].is_destroyed
    /\ bird = StartBird
    /\ ~pulling

\* The pointer positions check_button_hover is evaluated at: in the button,
\* in the margin, outside, and the (-1, -1) passed when nothing points
ButtonPoints == {InButton, InMargin, OffButton, <<Px(-1), Px(-1)>>}

\* Progress within 0..60, and 60 whenever the button has triggered
ButtonOk(b) ==
    /\ b.progress >= 0
    /\ b.progress <= 60
    /\ b.has_triggered => b.progress = 60

\* One evaluation at p on the game g: the button is in range after it, and a
\* triggered button stays triggered at 60 if p is inside the expanded
\* rectangle and is reset to not triggered at 0 if p is outside
EvaluationOk(g, p) ==
    LET r == check_button_hover(g, p[1], p[2]).reset_button
    IN  /\ ButtonOk(r)
        /\ g.reset_button.has_triggered =>
              IF InExpandedArea(p[1], p[2])
              THEN r.has_triggered /\ r.progress = 60
              ELSE ~r.has_triggered /\ r.progress = 0

C21_DestroyedMonotonic ==
    [][(\E i \in 1..Len(targets) :
            /\ targets[i].is_destroyed
            /\ \/ i > Len(targets')
               \/ targets'[i] # targets[i])
        => (last'.fired > 0 \/ last'.resolved \/ SidebarReset)]_vars

\* C21 witness: a destroyed target the flying bird has left behind, still
\* destroyed, while another target stands.
C21_Witness ==
    /\ bird.is_flying
    /\ ~AllDestroyed
    /\ \E i \in 1..Len(targets) :
          /\ targets[i].is_destroyed
          /\ ~Overlaps(targets[i], bird.x, bird.y)
          /\ ~Overlaps(targets[i], bird.x - bird.vel_x, bird.y - bird.vel_y)

\* The program's variables (all but the observations) take the fields of n
SameGame(n) ==
    /\ bird' = n.bird
    /\ targets' = n.targets
    /\ pulling' = n.pulling
    /\ score' = n.score
    /\ game_won' = n.game_won
    /\ is_paused' = n.is_paused
    /\ fist_detected' = n.fist_detected
    /\ last_fist_state' = n.last_fist_state
    /\ pause_message_timer' = n.pause_message_timer
    /\ current_level' = n.current_level
    /\ is_transitioning' = n.is_transitioning
    /\ transition_progress' = n.transition_progress
    /\ reset_button' = n.reset_button
    /\ fist_history' = n.fist_history
    /\ swipe_history' = n.swipe_history

\* C22: a reset and a tick exclude each other: every step leaves the game
\* as a tick alone, a reset alone, a tick then a reset, or a reset then a
\* tick would.
C22_ResetAndTickExclusive ==
    [][\/ SameGame(reset_game(State))
       \/ \E hands \in FramesPlay :
             \/ SameGame(Frame(State, hands))
             \/ SameGame(reset_game(Frame(State, hands)))
             \/ SameGame(Frame(reset_game(State), hands))]_vars

\* The well-formed hands of a frame, in order
WellFormed(hands) == SelectSeq(hands, LAMBDA h : h.ok)

\* C23: a malformed hand is rejected for that hand only: a tick on a frame
\* holding one leaves the game as the tick on the frame's well-formed hands
\* alone does (the other hands classified, the rest of the tick run).
C23_MalformedHandRejectedAlone ==
    [][\A hands \in FramesBad :
          Tick(hands) => SameGame(Frame(State, WellFormed(hands)))]_vars

\* The level whose layout is on display: the level number outside a
\* transition, the one before it during a transition
DisplayedLevel == IF is_transitioning THEN current_level - 1 ELSE current_level

\* C24: the layout lags the level number by the transition: outside a
\* transition the targets are the current_level + 2 targets of the layout of
\* current_level, during a transition still those of current_level - 1, and
\* the positions change only on the tick that resolves the transition.
C24_LayoutLagsLevel ==
    /\ [](/\ Len(targets) = DisplayedLevel + 2
          /\ Positions(targets) = Positions(LevelTargets(DisplayedLevel)))
    /\ [][Positions(targets') # Positions(targets) =>
             (last'.resolved /\ ~is_transitioning'
                             /\ current_level' = current_level)]_vars

\* C24 witness: in the middle of the transition to level 3, the four targets
\* of level 2 still in place.
C24_Witness ==
    /\ is_transitioning
    /\ transition_progress > 0
    /\ current_level = 3
    /\ Len(targets) = 4
    /\ Positions(targets) = Positions(LevelTargets(2))

\* The last k entries of s, all of s when it has fewer
LastOf(s, k) == SubSeq(s, Max(1, Len(s) - k + 1), Len(s))

\* The number of true samples in a swipe history
SwipesIn(s) == Cardinality({i \in 1..Len(s) : s[i][1]})

C26_State ==
    /\ Len(bird.trail) <= 20
    /\ ~bird.is_flying => bird.trail = <<>>
    /\ pulling =>
          release(State).bird.trail = <<<<IntPx(bird.x), IntPx(bird.y)>>>>

\* C26, the tick: a tick on a flying bird adds at most one point and removes
\* none unless the flight ends; the tick that launches leaves the launch
\* point and the point of its one physics step.
C26_Step ==
    /\ (bird.is_flying /\ bird'.is_flying /\ TickPlay) =>
          /\ Len(bird'.trail) >= Len(bird.trail)
          /\ Len(bird'.trail) <= Len(bird.trail) + 1
          /\ SubSeq(bird'.trail, 1, Len(bird.trail)) = bird.trail
    /\ (~bird.is_flying /\ bird'.is_flying /\ TickPlay) =>
          /\ Len(bird'.trail) = 2
          /\ bird'.trail[1] = <<IntPx(bird.x), IntPx(bird.y)>>

\* C26: the trail never holds more than 20 points; it is empty when the
\* bird is not flying, has exactly 1 point right after launch and grows by
\* at most one point per flying tick up to 20.
C26_TrailBounded == []C26_State /\ [][C26_Step]_vars

\* C26 witness: a flight more than 20 steps old, its trail full with the
\* bird's position past the last recorded point.
C26_Witness ==
    /\ bird.is_flying
    /\ Len(bird.trail) = 20
    /\ bird.trail[20] # <<IntPx(bird.x), IntPx(bird.y)>>
    /\ bird.trail[20][1] < IntPx(bird.x)

\* C27: the trail holds the most recent positions: on a flying bird the
\* last trail entry is the bird's current integer-truncated position, the
\* oldest entries making room once the flight is more than 20 steps old.
C27_TrailEndsAtBird ==
    (bird.is_flying /\ bird.trail # <<>>) =>
        bird.trail[Len(bird.trail)] = <<IntPx(bird.x), IntPx(bird.y)>>

\* The points start_pull and update_pull are evaluated at: the pinch points
\* of the play, and points 39, 40 and 41 px and 99, 100 and 101 px from the
\* bird's start, along an axis and along a 3-4-5 diagonal
PullPoints ==
    {AtBird, PulledBack, PulledDown, PulledRight, PulledFar,
     Pt(203, 282), Pt(204, 282), Pt(205, 282),
     Pt(188, 314), Pt(187, 314), Pt(140, 250),
     Pt(164, 381), Pt(164, 382), Pt(164, 383),
     Pt(104, 362), Pt(104, 361), Pt(84, 342), Pt(224, 202)}

\* The point (x, y) is strictly closer than r whole pixels to (cx, cy), in
\* 1/100 pixel
StrictlyWithin(x, y, cx, cy, r) ==
    LET dx == Coarse(x - cx)
        dy == Coarse(y - cy)
    IN  /\ Abs(dx) < 100 * r
        /\ Abs(dy) < 100 * r
        /\ dx * dx + dy * dy < (100 * r) * (100 * r)

\* C28, the call on the state as it is: start_pull sets pulling, and nothing
\* else, when the bird is not flying, the game is not won and the point is
\* strictly within 40 px of the bird; otherwise it changes nothing.  A point
\* at exactly 40 px of a new game's bird is refused, one at 39 px accepted.
C28_Call ==
    /\ \A p \in PullPoints :
          start_pull(State, p[1], p[2]) =
              IF /\ ~bird.is_flying
                 /\ ~game_won
                 /\ StrictlyWithin(p[1], p[2], bird.x, bird.y, 40)
              THEN [State EXCEPT !.pulling = TRUE]
              ELSE State
    /\ start_pull(NewGame, Px(204), Px(282)) = NewGame
    /\ start_pull(NewGame, Px(188), Px(314)) = NewGame
    /\ start_pull(NewGame, Px(203), Px(282)).pulling

\* C28, the tick: the tick on which pulling becomes true found the bird at
\* rest and the game not won, and leaves the bird where it was.
C28_Step ==
    (~pulling /\ pulling' /\ TickPlay) =>
        /\ ~bird.is_flying
        /\ ~game_won
        /\ bird' = bird

\* C28: start_pull sets pulling only if the bird is not flying, the game is
\* not won and the point is strictly within 40 px of the bird's current
\* position; in every other case it changes nothing, and it never moves the
\* bird.
C28_StartPull == []C28_Call /\ [][C28_Step]_vars

\* C28 witness: the pull has just started: pulling, the bird still at its
\* start position.
C28_Witness ==
    /\ pulling
    /\ ~bird.is_flying
    /\ bird.x = bird.start_x
    /\ bird.y = bird.start_y
    /\ bird.trail = <<>>

\* The square of the distance between (x, y) and (cx, cy), in 1/100 pixel,
\* for points at most 300 px apart
SquareDistance(x, y, cx, cy) ==
    LET dx == Coarse(x - cx)
        dy == Coarse(y - cy)
    IN  dx * dx + dy * dy

\* (x, y) is farther than 100 px from (cx, cy)
Beyond100(x, y, cx, cy) ==
    \/ Abs(x - cx) > Px(100)
    \/ Abs(y - cy) > Px(100)
    \/ SquareDistance(x, y, cx, cy) > 10000 * 10000

\* (x, y) is at 100 px from (cx, cy), to 1/100 pixel
At100(x, y, cx, cy) ==
    /\ SquareDistance(x, y, cx, cy) >= 9999 * 9999
    /\ SquareDistance(x, y, cx, cy) <= 10001 * 10001

\* (x, y) is on the ray from (cx, cy) through (px, py), to the rounding of
\* its coordinates to 1/100 pixel
OnRay(x, y, cx, cy, px, py) ==
    LET rx == Coarse(x - cx)
        ry == Coarse(y - cy)
        dx == Coarse(px - cx)
        dy == Coarse(py - cy)
    IN  /\ Abs(rx * dy - ry * dx) <= Abs(dx) + Abs(dy)
        /\ rx * dx + ry * dy > 0

\* C29, the call on the state as it is: when pulling, update_pull puts the
\* bird at the point if the point is within 100 px of the start, and
\* otherwise at 100 px from the start on the ray through the point, and
\* changes nothing else; when not pulling it changes nothing.
C29_Call ==
    \A p \in PullPoints :
        LET r == update_pull(State, p[1], p[2])
        IN  IF ~pulling THEN r = State
            ELSE /\ r = [State EXCEPT !.bird.x = r.bird.x, !.bird.y = r.bird.y]
                 /\ IF Beyond100(p[1], p[2], bird.start_x, bird.start_y)
                    THEN /\ At100(r.bird.x, r.bird.y, bird.start_x, bird.start_y)
                         /\ OnRay(r.bird.x, r.bird.y, bird.start_x, bird.start_y,
                                  p[1], p[2])
                    ELSE r.bird.x = p[1] /\ r.bird.y = p[2]

\* C29, the game: while pulling the bird is at most 100 px from its start.
C29_Within ==
    pulling => ~Beyond100(bird.x, bird.y, bird.start_x, bird.start_y)

\* C29: while pulling, after every update_pull the bird's distance from its
\* start is at most 100: at the point when it is within 100 of the start,
\* else on the ray from the start through the point at distance 100;
\* update_pull when not pulling changes nothing.
C29_UpdatePull == C29_Call /\ C29_Within

\* C29 witness: the bird pulled to 118 px below its start and held at 100.
C29_Witness ==
    /\ pulling
    /\ bird.x = bird.start_x
    /\ bird.y = bird.start_y + Px(100)

\* The number of targets standing before the step and destroyed after it
NewlyDestroyed ==
    Cardinality({i \in 1..Len(targets) :
                    /\ i <= Len(targets')
                    /\ ~targets[i].is_destroyed
                    /\ targets'[i].is_destroyed})

\* C30, the state: the score is a non-negative multiple of 100, at least
\* 100 for each target now destroyed.
C30_State ==
    /\ score >= 0
    /\ score % 100 = 0
    /\ score >= 100 * DestroyedCount

\* C30, the step: the score grows by exactly 100 for each target the step
\* destroys; it shrinks only to 0 and only by the restart command; a step
\* of a level transition (its start, its animation, its resolution) leaves
\* it as it was unless the restart command zeroes it.
C30_Step ==
    /\ score' > score => score' = score + 100 * NewlyDestroyed
    /\ score' < score =>
          /\ score' = 0
          /\ last'.fired > 0 \/ SidebarReset
    /\ (is_transitioning \/ last'.resolved \/ current_level' # current_level) =>
          \/ score' = score
          \/ score' = 0 /\ (last'.fired > 0 \/ SidebarReset)

\* C30: the score is a non-negative multiple of 100, increases only by 100
\* per newly destroyed target, is never less than 100 times the number of
\* destroyed targets, and is carried unchanged across level transitions:
\* only the restart command zeroes it.
C30_Score == []C30_State /\ [][C30_Step]_vars

\* C30 witness: level 2 just instantiated, nothing destroyed in it, with the
\* 300 points of level 1 carried over.
C30_Witness ==
    /\ current_level = 2
    /\ ~is_transitioning
    /\ DestroyedCount = 0
    /\ score = 300

\* C31, the state: transition_progress is within 0..100, and 0 outside a
\* transition.
C31_State ==
    /\ transition_progress >= 0
    /\ transition_progress <= 100
    /\ ~is_transitioning => transition_progress = 0

\* C31, the step: transition_progress changes only by a transitioning tick,
\* which adds 3 or resolves the transition and sets it to 0, or by the tick
\* on which next_level sets it to 0 and the transition takes its first +3.
C31_Step ==
    transition_progress' # transition_progress =>
        \/ /\ is_transitioning /\ is_transitioning'
           /\ ~last'.resolved
           /\ transition_progress' = transition_progress + 3
        \/ /\ is_transitioning /\ ~is_transitioning'
           /\ last'.resolved
           /\ transition_progress' = 0
        \/ /\ ~is_transitioning /\ is_transitioning'
           /\ current_level' = current_level + 1
           /\ transition_progress' = 3

\* C31: transition_progress stays within [0, 100] at every tick boundary,
\* is 0 whenever is_transitioning is false, and changes only through
\* next_level and through a transitioning tick.
C31_ProgressBounded == []C31_State /\ [][C31_Step]_vars

\* C31 witness: a transition one tick from its resolution.
C31_Witness ==
    /\ is_transitioning
    /\ transition_progress = 99
    /\ current_level = 2

\* The value the tick gives the pause message timer: 120 on a rising edge of
\* the stabilized fist signal, 60 on a falling edge, else the value it has,
\* then one less if that is positive
TimerAfterTick ==
    LET base == IF fist_detected' /\ ~last_fist_state THEN 120
                ELSE IF ~fist_detected' /\ last_fist_state THEN 60
                ELSE pause_message_timer
    IN  IF base > 0 THEN base - 1 ELSE base

\* C32: the pause message timer is never negative, and every tick sets it to
\* 120 on a false-to-true fist edge and to 60 on a true-to-false edge and
\* takes 1 off it when it is positive, paused or not; the restart command
\* leaves it alone.
C32_MessageTimer ==
    /\ [](pause_message_timer >= 0)
    /\ [][IF SidebarReset
          THEN pause_message_timer' = pause_message_timer
          ELSE pause_message_timer' = TimerAfterTick]_vars

\* The game g is pulling and flying at once
PullingInFlight(g) == g.pulling /\ g.bird.is_flying

\* C33: pulling and bird.is_flying are never both true: not in any state,
\* and not after start_pull (at the bird itself or at the pulled-back point),
\* update_pull, release, update, reset_game, next_level or init_level called
\* on it.
C33_IdlePullingFlying ==
    /\ ~PullingInFlight(State)
    /\ ~PullingInFlight(start_pull(State, bird.x, bird.y))
    /\ ~PullingInFlight(start_pull(State, PulledBack[1], PulledBack[2]))
    /\ ~PullingInFlight(update_pull(State, PulledBack[1], PulledBack[2]))
    /\ ~PullingInFlight(release(State))
    /\ ~PullingInFlight(update(State))
    /\ ~PullingInFlight(reset_game(State))
    /\ ~PullingInFlight(next_level(State))
    /\ ~PullingInFlight(init_level(State))

\* C33 witness: on level 2, a bird in flight right after the release of a
\* pull, with the pinch gone.
C33_Witness ==
    /\ current_level = 2
    /\ bird.is_flying
    /\ ~pulling
    /\ Len(bird.trail) = 2
    /\ ~is_paused

\* The bird b is at its start position
AtStart(b) == b.x = b.start_x /\ b.y = b.start_y

\* C34, the state: a bird that is not flying has velocity (0, 0); a bird
\* neither flying nor pulled is at its start position with an empty trail.
C34_State ==
    /\ ~bird.is_flying => bird.vel_x = 0 /\ bird.vel_y = 0
    /\ (~bird.is_flying /\ ~pulling) => AtStart(bird) /\ bird.trail = <<>>

\* C34, the step: the bird's position changes only by a physics step of a
\* flight (the bird flies after the step), by update_pull during a pull, or
\* by a reset or level initialisation that leaves it at rest at its start.
C34_Step ==
    (bird'.x # bird.x \/ bird'.y # bird.y) =>
        \/ bird'.is_flying
        \/ pulling /\ pulling' /\ ~bird.is_flying /\ ~bird'.is_flying
        \/ ~bird'.is_flying /\ ~pulling' /\ AtStart(bird')

\* C34: whenever the bird is not flying its velocity is (0, 0); whenever it
\* is neither flying nor pulled it is at its start position with an empty
\* trail; its position changes only by a flying physics step, by
\* update_pull while pulling, or by a reset or level initialisation.
C34_BirdAtRest == []C34_State /\ [][C34_Step]_vars

\* C34 witness: a flight that left the playfield has just been put back:
\* the bird at rest at its start with no velocity and no trail.
C34_Witness ==
    /\ last.bounced
    /\ ~bird.is_flying
    /\ ~pulling
    /\ AtStart(bird)
    /\ bird.vel_x = 0 /\ bird.vel_y = 0
    /\ bird.trail = <<>>

\* Pointer positions outside the expanded rectangle: far away, one pixel
\* beyond its right, top and bottom edges, and the (-1, -1) passed when
\* nothing points
PointerOutside ==
    {OffButton, Pt(141, 390), Pt(60, 349), Pt(60, 431), <<Px(-1), Px(-1)>>}

\* C35, the state: progress is non-zero only in a hover episode, and a button
\* last evaluated outside the expanded rectangle is the fresh one.
C35_State ==
    /\ reset_button.progress # 0 => reset_button.was_in_area
    /\ ~reset_button.was_in_area => reset_button = FreshButton

\* C35, the call on the state as it is: an evaluation with the pointer
\* outside the expanded rectangle leaves progress 0 and hover, active and
\* has_triggered false, whatever the progress before, and fires nothing.
C35_Call ==
    \A p \in PointerOutside :
        /\ ~InExpandedArea(p[1], p[2])
        /\ LET r == check_button_hover(State, p[1], p[2])
           IN  /\ r.reset_button = FreshButton
               /\ r.last.fired = last.fired
               /\ r.score = score /\ r.bird = bird /\ r.targets = targets

===========================================================================
